---- MODULE Spec2Model ----
(***************************************************************************)
(* Currency-conversion and reward-optimisation engine of the Alpha Agency  *)
(* 752 dashboards (Bigo-Host-Calculator).                                  *)
(*                                                                         *)
(* The engine is a family of functions called from button handlers.  The   *)
(* state of the model is the module-level PK table of                      *)
(* Hosting_pay_dashboard.py together with the last call made (its          *)
(* arguments) and what that call produced (a returned tuple, or a raised   *)
(* exception).  Every function is modelled by an operator that follows     *)
(* the statements of its source, and every call by one action.  A call is  *)
(* made from the idle state and Rerun returns to it, as every press of a   *)
(* button runs the script anew.  Repeat makes the last call once more,     *)
(* with the same arguments, on the state the first call left.              *)
(***************************************************************************)
EXTENDS Integers, Sequences, FiniteSets, TLC

VARIABLES
    pk_data,    \* Hosting_pay_dashboard.py: the module-level PK tables
    call,       \* the last call: function, copy (file), arguments
    ret,        \* what the last call produced
    prev        \* what the same call produced before it was repeated

vars == <<pk_data, call, ret, prev>>

(***************************************************************************)
(* Bounds of the explored inputs.                                          *)
(***************************************************************************)
MaxCost == 3         \* tier costs of the small catalogs range over 0..MaxCost
MaxYield == 2        \* tier yields of the small catalogs range over 1..MaxYield
MaxTiers == 2        \* small catalogs hold at most MaxTiers tiers
MaxBudget == 8       \* budgets given with the small catalogs: up to MaxBudget
MaxNeg == 2          \* ... and down to -MaxNeg
MaxThousands == 11   \* bean inputs of tab2: m * 1000 + r, m in 0..MaxThousands
MaxRem == 9          \*                                    r in 0..MaxRem
MaxPkThousands == 160  \* PK points: m * 1000 + r, m in -MaxPkNeg..MaxPkThousands
MaxPkNeg == 8          \*                          r in -MaxRem..MaxRem
MaxDiamondHundreds == 160  \* diamonds of tab3: m * 100 + r, r in 0..MaxRem

(***************************************************************************)
(* Python helpers.                                                         *)
(***************************************************************************)
\* a tier is a tuple (cost, yield); Python's f"{bean_cost}→{dia_return}"
PackageKey(bean_cost, dia_return) ==
    ToString(bean_cost) \o "→" \o ToString(dia_return)

\* Python tuple comparison a > b on 2-tuples of integers
TupleGt(a, b) == a[1] > b[1] \/ (a[1] = b[1] /\ a[2] > b[2])

\* mutant: reverse=True left out, the sort is ascending
SortGt_ascending(byCost, a, b) == IF byCost THEN a[1] < b[1] ELSE TupleGt(b, a)

\* the comparison that sorted(..., reverse=True[, key=lambda x: x[0]]) sorts on
SortGt(byCost, a, b) == IF byCost THEN a[1] > b[1] ELSE TupleGt(a, b)

\* sorted(seq, reverse=True): Python's sort is stable, and reverse=True keeps
\* the original order of the elements that compare equal.  Element x goes
\* right before the first element it is strictly greater than.
RECURSIVE InsertDesc(_, _, _)
InsertDesc(byCost, s, x) ==
    IF s = <<>> THEN <<x>>
    ELSE IF SortGt(byCost, x, Head(s)) THEN <<x>> \o s
    ELSE <<Head(s)>> \o InsertDesc(byCost, Tail(s), x)

RECURSIVE sorted(_, _)
sorted(byCost, seq) ==
    IF seq = <<>> THEN <<>>
    ELSE InsertDesc(byCost, sorted(byCost, SubSeq(seq, 1, Len(seq) - 1)),
                    seq[Len(seq)])

\* a Python dict of counts: the (key, value) entries in insertion order;
\* counts[key] = cnt overwrites the value of an existing key in place
DictSet(d, key, cnt) ==
    IF \E i \in 1..Len(d) : d[i].key = key
    THEN [i \in 1..Len(d) |-> IF d[i].key = key THEN [key |-> key, cnt |-> cnt]
                              ELSE d[i]]
    ELSE Append(d, [key |-> key, cnt |-> cnt])

Range(s) == {s[i] : i \in 1..Len(s)}

\* what a call produced: a returned tuple, a raised exception (named by its
\* Python class), or a st.warning of the handler that made no call.  The
\* fields follow the names of the returned tuples: greedy_bean_to_diamond
\* returns (total, leftover, counts), reward_breakdown returns
\* (best_type, total, steps, diamonds_used, leftover).
Outcome(kind, exc, total, leftover, counts, best_type, steps, diamonds_used) ==
    [kind |-> kind, exc |-> exc, total |-> total, leftover |-> leftover,
     counts |-> counts, best_type |-> best_type, steps |-> steps,
     diamonds_used |-> diamonds_used]

Returned(total, leftover, counts) ==
    Outcome("return", "-", total, leftover, counts, "-", <<>>, 0)

Raised(exc) == Outcome("raise", exc, 0, 0, <<>>, "-", <<>>, 0)

Warning == Outcome("warning", "-", 0, 0, <<>>, "-", <<>>, 0)

NoOutcome == Outcome("none", "-", 0, 0, <<>>, "-", <<>>, 0)

(***************************************************************************)
(* greedy_bean_to_diamond, Hosting_pay_dashboard.py and                    *)
(* agency_pay_dashboard.py (the two copies are the same statements).       *)
(* The loop state is (raised, total_diamonds, remaining, counts).          *)
(***************************************************************************)
\* mutant: the test "if remaining >= bean_cost" left out
RECURSIVE GreedyLoopHosting_noGuard(_, _, _)
GreedyLoopHosting_noGuard(tiers, i, acc) ==
    IF i > Len(tiers) \/ acc.raised THEN acc
    ELSE LET bean_cost == tiers[i][1]
             dia_return == tiers[i][2]
         IN IF bean_cost = 0
            THEN [acc EXCEPT !.raised = TRUE]
            ELSE LET cnt == acc.remaining \div bean_cost
                 IN GreedyLoopHosting_noGuard(tiers, i + 1,
                      [raised |-> FALSE,
                       total |-> acc.total + cnt * dia_return,
                       remaining |-> acc.remaining - cnt * bean_cost,
                       counts |-> DictSet(acc.counts,
                                    PackageKey(bean_cost, dia_return), cnt)])

RECURSIVE GreedyLoopHosting(_, _, _)
GreedyLoopHosting(tiers, i, acc) ==
    IF i > Len(tiers) \/ acc.raised THEN acc
    ELSE LET bean_cost == tiers[i][1]
             dia_return == tiers[i][2]
         IN IF acc.remaining >= bean_cost
            THEN IF bean_cost = 0
                 THEN [acc EXCEPT !.raised = TRUE]     \* ZeroDivisionError
                 ELSE LET cnt == acc.remaining \div bean_cost
                      IN GreedyLoopHosting(tiers, i + 1,
                           [raised |-> FALSE,
                            total |-> acc.total + cnt * dia_return,
                            remaining |-> acc.remaining - cnt * bean_cost,
                            counts |-> DictSet(acc.counts,
                                         PackageKey(bean_cost, dia_return), cnt)])
            ELSE GreedyLoopHosting(tiers, i + 1, acc)

greedy_bean_to_diamond_Hosting(beans, packages) ==
    LET fin == GreedyLoopHosting(sorted(FALSE, packages), 1,
                   [raised |-> FALSE, total |-> 0, remaining |-> beans,
                    counts |-> <<>>])
    IN IF fin.raised THEN Raised("ZeroDivisionError")
       ELSE Returned(fin.total, fin.remaining, fin.counts)

greedy_bean_to_diamond_agency(beans, packages) ==
    LET fin == GreedyLoopHosting(sorted(FALSE, packages), 1,
                   [raised |-> FALSE, total |-> 0, remaining |-> beans,
                    counts |-> <<>>])
    IN IF fin.raised THEN Raised("ZeroDivisionError")
       ELSE Returned(fin.total, fin.remaining, fin.counts)

(***************************************************************************)
(* greedy_bean_to_diamond, main.py: early return, sort on the cost only,   *)
(* cnt > 0 test, and a try/except around the loop.                         *)
(***************************************************************************)
\* mutant: "remaining -= bean_cost", the count left out
RECURSIVE GreedyLoopMain_noCount(_, _, _)
GreedyLoopMain_noCount(tiers, i, acc) ==
    IF i > Len(tiers) \/ acc.raised THEN acc
    ELSE LET bean_cost == tiers[i][1]
             dia_return == tiers[i][2]
         IN IF acc.remaining >= bean_cost
            THEN IF bean_cost = 0
                 THEN [acc EXCEPT !.raised = TRUE]
                 ELSE LET cnt == acc.remaining \div bean_cost
                      IN IF cnt > 0
                         THEN GreedyLoopMain_noCount(tiers, i + 1,
                                [raised |-> FALSE,
                                 total |-> acc.total + cnt * dia_return,
                                 remaining |-> acc.remaining - bean_cost,
                                 counts |-> DictSet(acc.counts,
                                      PackageKey(bean_cost, dia_return), cnt)])
                         ELSE GreedyLoopMain_noCount(tiers, i + 1, acc)
            ELSE GreedyLoopMain_noCount(tiers, i + 1, acc)

RECURSIVE GreedyLoopMain(_, _, _)
GreedyLoopMain(tiers, i, acc) ==
    IF i > Len(tiers) \/ acc.raised THEN acc
    ELSE LET bean_cost == tiers[i][1]
             dia_return == tiers[i][2]
         IN IF acc.remaining >= bean_cost
            THEN IF bean_cost = 0
                 THEN [acc EXCEPT !.raised = TRUE]     \* ZeroDivisionError
                 ELSE LET cnt == acc.remaining \div bean_cost
                      IN IF cnt > 0
                         THEN GreedyLoopMain(tiers, i + 1,
                                [raised |-> FALSE,
                                 total |-> acc.total + cnt * dia_return,
                                 remaining |-> acc.remaining - cnt * bean_cost,
                                 counts |-> DictSet(acc.counts,
                                      PackageKey(bean_cost, dia_return), cnt)])
                         ELSE GreedyLoopMain(tiers, i + 1, acc)
            ELSE GreedyLoopMain(tiers, i + 1, acc)

\* mutant: "return total_diamonds, beans, counts"
greedy_bean_to_diamond_main_keepsBeans(beans, packages) ==
    IF packages = <<>> \/ beans <= 0
    THEN Returned(0, beans, <<>>)
    ELSE LET fin == GreedyLoopMain(sorted(TRUE, packages), 1,
                        [raised |-> FALSE, total |-> 0, remaining |-> beans,
                         counts |-> <<>>])
         IN IF fin.raised
            THEN Returned(0, beans, <<>>)
            ELSE Returned(fin.total, beans, fin.counts)

\* mutant: the early return is "return 0, 0, {}"
greedy_bean_to_diamond_main_zeroLeftover(beans, packages) ==
    IF packages = <<>> \/ beans <= 0
    THEN Returned(0, 0, <<>>)
    ELSE LET fin == GreedyLoopMain(sorted(TRUE, packages), 1,
                        [raised |-> FALSE, total |-> 0, remaining |-> beans,
                         counts |-> <<>>])
         IN IF fin.raised
            THEN Returned(0, beans, <<>>)
            ELSE Returned(fin.total, fin.remaining, fin.counts)

\* mutant: a negative budget is rejected with "raise ValueError"
greedy_bean_to_diamond_main_raises(beans, packages) ==
    IF beans < 0 THEN Raised("ValueError")
    ELSE IF packages = <<>> \/ beans <= 0
    THEN Returned(0, beans, <<>>)
    ELSE LET fin == GreedyLoopMain(sorted(TRUE, packages), 1,
                        [raised |-> FALSE, total |-> 0, remaining |-> beans,
                         counts |-> <<>>])
         IN IF fin.raised
            THEN Returned(0, beans, <<>>)
            ELSE Returned(fin.total, fin.remaining, fin.counts)

greedy_bean_to_diamond_main(beans, packages) ==
    IF packages = <<>> \/ beans <= 0
    THEN Returned(0, beans, <<>>)
    ELSE LET fin == GreedyLoopMain(sorted(TRUE, packages), 1,
                        [raised |-> FALSE, total |-> 0, remaining |-> beans,
                         counts |-> <<>>])
         IN IF fin.raised
            THEN Returned(0, beans, <<>>)              \* except Exception
            ELSE Returned(fin.total, fin.remaining, fin.counts)

greedy_bean_to_diamond(copy, beans, packages) ==
    CASE copy = "main" -> greedy_bean_to_diamond_main(beans, packages)
      [] copy = "Hosting" -> greedy_bean_to_diamond_Hosting(beans, packages)
      [] copy = "agency" -> greedy_bean_to_diamond_agency(beans, packages)

(***************************************************************************)
(* reward_breakdown.  The inner loop over the rungs of one table has the   *)
(* state (temp_points, temp_win, steps, temp_used); a step is the tuple    *)
(* (count, cost, win).                                                     *)
(***************************************************************************)
\* Hosting_pay_dashboard.py 168-174: no test of temp_points >= cost, and
\* "if count:" is true of every count but 0
RECURSIVE TablePassHosting(_, _, _)
TablePassHosting(rewards_sorted, i, acc) ==
    IF i > Len(rewards_sorted) \/ acc.raised THEN acc
    ELSE LET cost == rewards_sorted[i][1]
             win == rewards_sorted[i][2]
         IN IF cost = 0
            THEN [acc EXCEPT !.raised = TRUE]          \* ZeroDivisionError
            ELSE LET count == acc.temp_points \div cost
                 IN IF count /= 0
                    THEN TablePassHosting(rewards_sorted, i + 1,
                           [raised |-> FALSE,
                            temp_points |-> acc.temp_points - count * cost,
                            temp_win |-> acc.temp_win + count * win,
                            temp_used |-> acc.temp_used + count * cost,
                            steps |-> Append(acc.steps, <<count, cost, win>>)])
                    ELSE TablePassHosting(rewards_sorted, i + 1, acc)

\* mutant: "temp_points -= cost", the count left out
RECURSIVE TablePassMain_noCount(_, _, _)
TablePassMain_noCount(rewards_sorted, i, acc) ==
    IF i > Len(rewards_sorted) \/ acc.raised THEN acc
    ELSE LET cost == rewards_sorted[i][1]
             win == rewards_sorted[i][2]
         IN IF acc.temp_points >= cost
            THEN IF cost = 0
                 THEN [acc EXCEPT !.raised = TRUE]
                 ELSE LET count == acc.temp_points \div cost
                      IN IF count > 0
                         THEN TablePassMain_noCount(rewards_sorted, i + 1,
                                [raised |-> FALSE,
                                 temp_points |-> acc.temp_points - cost,
                                 temp_win |-> acc.temp_win + count * win,
                                 temp_used |-> acc.temp_used + count * cost,
                                 steps |-> Append(acc.steps, <<count, cost, win>>)])
                         ELSE TablePassMain_noCount(rewards_sorted, i + 1, acc)
            ELSE TablePassMain_noCount(rewards_sorted, i + 1, acc)

\* main.py 150-157
RECURSIVE TablePassMain(_, _, _)
TablePassMain(rewards_sorted, i, acc) ==
    IF i > Len(rewards_sorted) \/ acc.raised THEN acc
    ELSE LET cost == rewards_sorted[i][1]
             win == rewards_sorted[i][2]
         IN IF acc.temp_points >= cost
            THEN IF cost = 0
                 THEN [acc EXCEPT !.raised = TRUE]     \* ZeroDivisionError
                 ELSE LET count == acc.temp_points \div cost
                      IN IF count > 0
                         THEN TablePassMain(rewards_sorted, i + 1,
                                [raised |-> FALSE,
                                 temp_points |-> acc.temp_points - count * cost,
                                 temp_win |-> acc.temp_win + count * win,
                                 temp_used |-> acc.temp_used + count * cost,
                                 steps |-> Append(acc.steps, <<count, cost, win>>)])
                         ELSE TablePassMain(rewards_sorted, i + 1, acc)
            ELSE TablePassMain(rewards_sorted, i + 1, acc)

\* the pass of one table against the full pk_points, as each copy makes it
TablePass(copy, rewards, pk_points) ==
    LET start == [raised |-> FALSE, temp_points |-> pk_points, temp_win |-> 0,
                  temp_used |-> 0, steps |-> <<>>]
    IN IF copy = "main"
       THEN TablePassMain(sorted(TRUE, rewards), 1, start)
       ELSE TablePassHosting(sorted(FALSE, rewards), 1, start)

\* mutant: "if temp_win >= best_win:"
Improves_ge(temp_win, best_win) == temp_win >= best_win

\* "if temp_win > best_win:" (main.py 159, Hosting 175)
Improves(temp_win, best_win) == temp_win > best_win

\* mutant: "diamonds_used = pk_points // 10", the budget for the points used
RECURSIVE TablesLoop_fullBudget(_, _, _, _, _)
TablesLoop_fullBudget(copy, tables, pk_points, i, best) ==
    IF i > Len(tables) \/ best.raised THEN best
    ELSE LET pass == TablePass(copy, tables[i].rewards, pk_points)
         IN IF pass.raised THEN [best EXCEPT !.raised = TRUE]
            ELSE IF Improves(pass.temp_win, best.best_win)
            THEN TablesLoop_fullBudget(copy, tables, pk_points, i + 1,
                   [raised |-> FALSE,
                    best_type |-> tables[i].name,
                    best_win |-> pass.temp_win,
                    best_steps |-> pass.steps,
                    diamonds_used |-> pk_points \div 10,
                    remainder |-> pass.temp_points])
            ELSE TablesLoop_fullBudget(copy, tables, pk_points, i + 1, best)

\* the loop over pk_data.items(), in the insertion order of the dict; its
\* state is (best_type, best_win, best_steps, diamonds_used, remainder)
RECURSIVE TablesLoop(_, _, _, _, _)
TablesLoop(copy, tables, pk_points, i, best) ==
    IF i > Len(tables) \/ best.raised THEN best
    ELSE LET pass == TablePass(copy, tables[i].rewards, pk_points)
         IN IF pass.raised THEN [best EXCEPT !.raised = TRUE]
            ELSE IF Improves(pass.temp_win, best.best_win)
            THEN TablesLoop(copy, tables, pk_points, i + 1,
                   [raised |-> FALSE,
                    best_type |-> tables[i].name,
                    best_win |-> pass.temp_win,
                    best_steps |-> pass.steps,
                    diamonds_used |-> pass.temp_used \div 10,
                    remainder |-> pass.temp_points])
            ELSE TablesLoop(copy, tables, pk_points, i + 1, best)

BestStart(pk_points) ==
    [raised |-> FALSE, best_type |-> "None", best_win |-> 0, best_steps |-> <<>>,
     diamonds_used |-> 0, remainder |-> pk_points]

RewardReturned(best) ==
    Outcome("return", "-", best.best_win, best.remainder, <<>>, best.best_type,
            best.best_steps, best.diamonds_used)

\* Hosting_pay_dashboard.py 156-181: reads the module-level pk_data
reward_breakdown_Hosting(tables, pk_points) ==
    LET fin == TablesLoop("Hosting", tables, pk_points, 1, BestStart(pk_points))
    IN IF fin.raised THEN Raised("ZeroDivisionError") ELSE RewardReturned(fin)

\* main.py 120-169: early return, its own pk_data, try/except
reward_breakdown_main(tables, pk_points) ==
    IF pk_points <= 0
    THEN RewardReturned(BestStart(pk_points))
    ELSE LET fin == TablesLoop("main", tables, pk_points, 1, BestStart(pk_points))
         IN IF fin.raised
            THEN RewardReturned(BestStart(pk_points))  \* except Exception
            ELSE RewardReturned(fin)

(***************************************************************************)
(* The Exact Allocator (dynamic programming) of section 4.2.  No file of   *)
(* the repository holds it; it is modelled from its description.           *)
(***************************************************************************)
\* mutant: the comparison with best[b] left out, the last tier that fits wins
RECURSIVE FillLevel_noCompare(_, _, _, _)
FillLevel_noCompare(catalog, b, j, tbl) ==
    IF j > Len(catalog) THEN tbl
    ELSE LET cost == catalog[j][1]
             yield == catalog[j][2]
         IN IF cost <= b
            THEN FillLevel_noCompare(catalog, b, j + 1,
                   [best |-> [tbl.best EXCEPT ![b] = tbl.best[b - cost] + yield],
                    choiceAt |-> [tbl.choiceAt EXCEPT ![b] = j]])
            ELSE FillLevel_noCompare(catalog, b, j + 1, tbl)

\* the tiers of the catalog tried in turn at budget level b
RECURSIVE FillLevel(_, _, _, _)
FillLevel(catalog, b, j, tbl) ==
    IF j > Len(catalog) THEN tbl
    ELSE LET cost == catalog[j][1]
             yield == catalog[j][2]
         IN IF cost <= b /\ tbl.best[b - cost] + yield > tbl.best[b]
            THEN FillLevel(catalog, b, j + 1,
                   [best |-> [tbl.best EXCEPT ![b] = tbl.best[b - cost] + yield],
                    choiceAt |-> [tbl.choiceAt EXCEPT ![b] = j]])
            ELSE FillLevel(catalog, b, j + 1, tbl)

\* budget levels b = 1 .. budget
RECURSIVE FillTable(_, _, _, _)
FillTable(catalog, budget, b, tbl) ==
    IF b > budget THEN tbl
    ELSE FillTable(catalog, budget, b + 1, FillLevel(catalog, b, 1, tbl))

\* usage[tier] += 1
DictIncr(d, key) ==
    IF \E i \in 1..Len(d) : d[i].key = key
    THEN [i \in 1..Len(d) |-> IF d[i].key = key
                              THEN [key |-> key, cnt |-> d[i].cnt + 1]
                              ELSE d[i]]
    ELSE Append(d, [key |-> key, cnt |-> 1])

\* mutant: the walk stops after its first step
Reconstruct_oneStep(catalog, choiceAt, b, usage) ==
    IF choiceAt[b] = 0 THEN [usage |-> usage, leftover |-> b]
    ELSE LET tier == catalog[choiceAt[b]]
         IN [usage |-> DictIncr(usage, PackageKey(tier[1], tier[2])),
             leftover |-> b - tier[1]]

\* the walk backward from b = budget; choiceAt[b] = 0 stands for undefined
RECURSIVE Reconstruct(_, _, _, _)
Reconstruct(catalog, choiceAt, b, usage) ==
    IF choiceAt[b] = 0 THEN [usage |-> usage, leftover |-> b]
    ELSE LET tier == catalog[choiceAt[b]]
         IN Reconstruct(catalog, choiceAt, b - tier[1],
                        DictIncr(usage, PackageKey(tier[1], tier[2])))

allocateOptimal(budget, catalog) ==
    IF budget < 0 THEN Raised("InvalidBudget")
    ELSE LET tbl == FillTable(catalog, budget, 1,
                      [best |-> [b \in 0..budget |-> 0],
                       choiceAt |-> [b \in 0..budget |-> 0]])
             rec == Reconstruct(catalog, tbl.choiceAt, budget, <<>>)
         IN Returned(tbl.best[budget], rec.leftover, rec.usage)

(***************************************************************************)
(* Inputs.                                                                 *)
(***************************************************************************)
Tiers == (0..MaxCost) \X (1..MaxYield)

Catalogs == UNION {[1..n -> Tiers] : n \in 0..MaxTiers}

Budgets == (-MaxNeg)..MaxBudget

\* the data model's Catalog: every tier has a positive cost
ValidCatalog(packages) == \A i \in 1..Len(packages) : packages[i][1] > 0

\* main.py 304-310 (the same tiers in Hosting 109-115, agency 133-139)
all_packages ==
    << <<10999, 3045>>, <<3999, 1105>>, <<999, 275>>, <<109, 29>>, <<8, 2>> >>

\* st.multiselect: the labels picked, listed here in the order of the options
RECURSIVE Selections(_)
Selections(seq) ==
    IF seq = <<>> THEN {<<>>}
    ELSE LET rest == Selections(Tail(seq))
         IN rest \cup {<<Head(seq)>> \o s : s \in rest}

\* st.number_input(min_value=0, step=1)
BeansInputs == {m * 1000 + r : m \in 0..MaxThousands, r \in 0..MaxRem}

\* points given to reward_breakdown: m * 1000 + r
PkInputs == {m * 1000 + r : m \in (-MaxPkNeg)..MaxPkThousands, r \in (-MaxRem)..MaxRem}

\* Hosting_pay_dashboard.py 145-154; main.py 125-134 builds the same dict in
\* every call
pk_data_shipped ==
    << [name |-> "Daily PK",
        rewards |-> << <<7000, 210>>, <<10000, 300>>, <<20000, 600>>,
                       <<30000, 900>>, <<50000, 1000>>, <<100000, 1800>>,
                       <<150000, 2700>> >>],
       [name |-> "Talent PK",
        rewards |-> << <<5000, 150>>, <<10000, 350>>, <<20000, 700>>,
                       <<30000, 1000>>, <<50000, 1700>> >>],
       [name |-> "Agency 2 vs 2 PK",
        rewards |-> << <<5000, 150>>, <<10000, 300>>, <<25000, 800>>,
                       <<50000, 1700>>, <<70000, 2300>>, <<100000, 3500>> >>],
       [name |-> "Star Tasks PK",
        rewards |-> << <<2000, 60>>, <<10000, 320>>, <<50000, 1700>>,
                       <<80000, 2800>>, <<100000, 3500>>, <<120000, 4000>> >>] >>

(***************************************************************************)
(* What a call leaves behind, and the button handlers.                     *)
(***************************************************************************)
\* the list passed as packages, after the call: sorted() builds a new list
\* and the loop only reads the tuples (main.py 107, Hosting 99, agency 118)
PackagesAfter(packages) == packages

\* mutant: "rewards.sort(reverse=True)", every table sorted in place
PkDataAfter_sortInPlace(tables) ==
    [i \in 1..Len(tables) |->
        [name |-> tables[i].name, rewards |-> sorted(FALSE, tables[i].rewards)]]

\* the module-level pk_data after a call of reward_breakdown: sorted(rewards)
\* builds a new list and no table is assigned to (Hosting 162-163)
PkDataAfter(tables) == tables

\* tab2: main.py 333-341 guards the call twice, Hosting 126-130 and agency
\* 161-166 once
tab2(copy, beans, active_packages) ==
    IF active_packages = <<>> THEN Warning
    ELSE IF copy = "main" /\ beans <= 0 THEN Warning
    ELSE greedy_bean_to_diamond(copy, beans, active_packages)

\* "pk_points = diamonds * 10" (main.py 415, Hosting 205)
PkPointsOf(diamonds) == diamonds * 10

\* mutant: the remainder shown as it is, in points
UnusedDiamonds_points(remainder) == remainder

\* "Unused Diamonds": remainder // 10 (main.py 426, Hosting 215)
UnusedDiamonds(remainder) == remainder \div 10

\* tab3: main.py 410-416 warns on diamonds_input <= 0, Hosting 204-206 calls
\* reward_breakdown for every input
tab3(copy, diamonds, tables) ==
    IF copy = "main"
    THEN IF diamonds <= 0 THEN Warning
         ELSE reward_breakdown_main(pk_data_shipped, PkPointsOf(diamonds))
    ELSE reward_breakdown_Hosting(tables, PkPointsOf(diamonds))

\* st.number_input(min_value=0, step=100): any integer >= 0 can be typed
DiamondInputs == {m * 100 + r : m \in 0..MaxDiamondHundreds, r \in 0..MaxRem}

(***************************************************************************)
(* The calls.                                                              *)
(***************************************************************************)
Call(fn, copy, budget, packages) ==
    [fn |-> fn, copy |-> copy, budget |-> budget, packages |-> packages]

Init ==
    /\ pk_data = pk_data_shipped
    /\ call = Call("none", "-", 0, <<>>)
    /\ ret = NoOutcome
    /\ prev = NoOutcome

\* a call of greedy_bean_to_diamond of main.py
GreedyMain ==
    /\ call.fn = "none"
    /\ \E beans \in Budgets, packages \in Catalogs :
        /\ call' = Call("greedy", "main", beans, PackagesAfter(packages))
        /\ ret' = greedy_bean_to_diamond("main", beans, packages)
        /\ UNCHANGED pk_data
        /\ prev' = NoOutcome

\* a call of greedy_bean_to_diamond of Hosting_pay_dashboard.py
GreedyHosting ==
    /\ call.fn = "none"
    /\ \E beans \in Budgets, packages \in Catalogs :
        /\ call' = Call("greedy", "Hosting", beans, PackagesAfter(packages))
        /\ ret' = greedy_bean_to_diamond("Hosting", beans, packages)
        /\ UNCHANGED pk_data
        /\ prev' = NoOutcome

\* a call of greedy_bean_to_diamond of agency_pay_dashboard.py
GreedyAgency ==
    /\ call.fn = "none"
    /\ \E beans \in Budgets, packages \in Catalogs :
        /\ call' = Call("greedy", "agency", beans, PackagesAfter(packages))
        /\ ret' = greedy_bean_to_diamond("agency", beans, packages)
        /\ UNCHANGED pk_data
        /\ prev' = NoOutcome

\* tab2 of main.py (333-341): the button handler guards the call
Tab2Main ==
    /\ call.fn = "none"
    /\ \E beans_input \in BeansInputs, active_packages \in Selections(all_packages) :
        /\ call' = Call("tab2", "main", beans_input, active_packages)
        /\ ret' = tab2("main", beans_input, active_packages)
        /\ UNCHANGED pk_data
        /\ prev' = NoOutcome

\* tab2 of Hosting_pay_dashboard.py (126-130)
Tab2Hosting ==
    /\ call.fn = "none"
    /\ \E beans \in BeansInputs, active_packages \in Selections(all_packages) :
        /\ call' = Call("tab2", "Hosting", beans, active_packages)
        /\ ret' = tab2("Hosting", beans, active_packages)
        /\ UNCHANGED pk_data
        /\ prev' = NoOutcome

\* main() of agency_pay_dashboard.py (161-166)
Tab2Agency ==
    /\ call.fn = "none"
    /\ \E beans \in BeansInputs, active_packages \in Selections(all_packages) :
        /\ call' = Call("tab2", "agency", beans, active_packages)
        /\ ret' = tab2("agency", beans, active_packages)
        /\ UNCHANGED pk_data
        /\ prev' = NoOutcome

\* a call of reward_breakdown of main.py
RewardMain ==
    /\ call.fn = "none"
    /\ \E pk_points \in PkInputs :
        /\ call' = Call("reward", "main", pk_points, <<>>)
        /\ ret' = reward_breakdown_main(pk_data_shipped, pk_points)
        /\ UNCHANGED pk_data
        /\ prev' = NoOutcome

\* a call of reward_breakdown of Hosting_pay_dashboard.py
RewardHosting ==
    /\ call.fn = "none"
    /\ \E pk_points \in PkInputs :
        /\ call' = Call("reward", "Hosting", pk_points, <<>>)
        /\ ret' = reward_breakdown_Hosting(pk_data, pk_points)
        /\ pk_data' = PkDataAfter(pk_data)
        /\ prev' = NoOutcome

\* a call of the Exact Allocator; its catalog is a data-model Catalog
Exact ==
    /\ call.fn = "none"
    /\ \E budget \in Budgets, catalog \in {c \in Catalogs : ValidCatalog(c)} :
        /\ call' = Call("exact", "spec", budget, catalog)
        /\ ret' = allocateOptimal(budget, catalog)
        /\ UNCHANGED pk_data
        /\ prev' = NoOutcome

\* tab3 of main.py (410-416)
Tab3Main ==
    /\ call.fn = "none"
    /\ \E diamonds_input \in DiamondInputs :
        /\ call' = Call("tab3", "main", diamonds_input, <<>>)
        /\ ret' = tab3("main", diamonds_input, pk_data)
        /\ UNCHANGED pk_data
        /\ prev' = NoOutcome

\* tab3 of Hosting_pay_dashboard.py (204-206)
Tab3Hosting ==
    /\ call.fn = "none"
    /\ \E diamonds \in DiamondInputs :
        /\ call' = Call("tab3", "Hosting", diamonds, <<>>)
        /\ ret' = tab3("Hosting", diamonds, pk_data)
        /\ pk_data' = PkDataAfter(pk_data)
        /\ prev' = NoOutcome

\* the last call with the arguments and the state it left
CallAgain ==
    CASE call.fn = "greedy" ->
             greedy_bean_to_diamond(call.copy, call.budget, call.packages)
      [] call.fn = "tab2" -> tab2(call.copy, call.budget, call.packages)
      [] call.fn = "reward" ->
             IF call.copy = "main"
             THEN reward_breakdown_main(pk_data_shipped, call.budget)
             ELSE reward_breakdown_Hosting(pk_data, call.budget)
      [] call.fn = "tab3" -> tab3(call.copy, call.budget, pk_data)
      [] call.fn = "exact" -> allocateOptimal(call.budget, call.packages)

\* the same call once more, right after the first
Repeat ==
    /\ call.fn /= "none"
    /\ prev.kind = "none"
    /\ prev' = ret
    /\ ret' = CallAgain
    /\ call' = [call EXCEPT !.packages = PackagesAfter(call.packages)]
    /\ pk_data' = IF call.copy = "Hosting" /\ call.fn \in {"reward", "tab3"}
                  THEN PkDataAfter(pk_data) ELSE pk_data

\* the call is over: its locals and its result are dropped and the script
\* runs anew, which builds pk_data again (Hosting 145-154)
Rerun ==
    /\ call.fn /= "none"
    /\ call' = Call("none", "-", 0, <<>>)
    /\ ret' = NoOutcome
    /\ prev' = NoOutcome
    /\ pk_data' = pk_data_shipped

Next ==
    \/ GreedyMain
    \/ GreedyHosting
    \/ GreedyAgency
    \/ Tab2Main
    \/ Tab2Hosting
    \/ Tab2Agency
    \/ RewardMain
    \/ RewardHosting
    \/ Exact
    \/ Tab3Main
    \/ Tab3Hosting
    \/ Repeat
    \/ Rerun

Spec == Init /\ [][Next]_vars

(***************************************************************************)
(* Reference definitions used by the properties.                           *)
(***************************************************************************)
\* a call of greedy_bean_to_diamond was made, directly or by a tab2 handler
GreedyCalled == call.fn \in {"greedy", "tab2"} /\ ret.kind /= "warning"

\* main.py 356-358 reads a key of counts back: pkg.split('→'), int(parts[0]),
\* int(parts[1]); the key of a tier of the catalog parses to that tier
TierOfKey(key, packages) ==
    CHOOSE p \in Range(packages) : PackageKey(p[1], p[2]) = key

\* sum over the entries of counts of count * cost (field 1) or yield (field 2)
RECURSIVE SumCounts(_, _, _, _)
SumCounts(counts, packages, field, i) ==
    IF i > Len(counts) THEN 0
    ELSE counts[i].cnt * TierOfKey(counts[i].key, packages)[field]
         + SumCounts(counts, packages, field, i + 1)

SetMax(S) == CHOOSE x \in S : \A y \in S : y <= x

\* the largest sum(count * yield) over the multisets of the tiers i.. of the
\* catalog whose cost is at most b, by enumeration of the counts
RECURSIVE MaxYieldFrom(_, _, _)
MaxYieldFrom(catalog, i, b) ==
    IF i > Len(catalog) THEN 0
    ELSE SetMax({k * catalog[i][2] + MaxYieldFrom(catalog, i + 1, b - k * catalog[i][1]) :
                    k \in 0..(b \div catalog[i][1])})

(***************************************************************************)
(* Properties.                                                             *)
(***************************************************************************)

\* C1: for a non-negative budget and a catalog of positive-cost tiers, the
\* result of greedy_bean_to_diamond satisfies sum(count * cost) + leftover =
\* budget and total = sum(count * yield) over the entries of counts.
C1_AccountingIdentities ==
    (GreedyCalled /\ call.budget >= 0 /\ ValidCatalog(call.packages)) =>
        /\ ret.kind = "return"
        /\ SumCounts(ret.counts, call.packages, 1, 1) + ret.leftover = call.budget
        /\ SumCounts(ret.counts, call.packages, 2, 1) = ret.total

C1_Witness ==
    /\ GreedyCalled /\ call.budget > 0 /\ ValidCatalog(call.packages)
    /\ Len(ret.counts) >= 2
    /\ ret.leftover > 0

\* C2: for a non-negative budget the Exact Allocator's total yield is the
\* maximum of sum(count * yield) over all multisets of tiers whose cost is
\* at most the budget.
C2_ExactIsMaximum ==
    (call.fn = "exact" /\ call.budget >= 0) =>
        /\ ret.kind = "return"
        /\ ret.total = MaxYieldFrom(call.packages, 1, call.budget)

C2_Witness ==
    /\ call.fn = "exact" /\ call.budget >= 0
    /\ Len(call.packages) >= 2
    /\ ret.total > greedy_bean_to_diamond("main", call.budget, call.packages).total
    /\ ret.leftover > 0

\* C3: for a non-negative budget the Exact Allocator's total yield is at
\* least the total yield every copy of greedy_bean_to_diamond returns for
\* the same budget and catalog.
C3_ExactAtLeastGreedy ==
    (call.fn = "exact" /\ call.budget >= 0) =>
        \A copy \in {"main", "Hosting", "agency"} :
            LET g == greedy_bean_to_diamond(copy, call.budget, call.packages)
            IN g.kind = "return" /\ ret.kind = "return" /\ ret.total >= g.total

C3_Witness ==
    /\ call.fn = "exact" /\ call.budget > 0
    /\ greedy_bean_to_diamond("Hosting", call.budget, call.packages).total > 0
    /\ ret.total > greedy_bean_to_diamond("Hosting", call.budget, call.packages).total

\* the total win of the pass of table i, as the copy of the call makes it
PassWin(i) == TablePass(call.copy, pk_data_shipped[i].rewards, call.budget).temp_win

\* table i has the highest total, and is the first table that has it
FirstHighest(i) ==
    /\ \A j \in 1..Len(pk_data_shipped) : PassWin(j) <= PassWin(i)
    /\ \A j \in 1..(i - 1) : PassWin(j) < PassWin(i)

\* C4 as stated: for every points budget reward_breakdown returns the table
\* whose greedy total win is the highest among all tables, the first in
\* iteration order among the tables that reach it.
C4_ReturnsFirstHighestTable ==
    call.fn = "reward" =>
        \E i \in 1..Len(pk_data_shipped) :
            /\ FirstHighest(i)
            /\ ret.best_type = pk_data_shipped[i].name
            /\ ret.total = PassWin(i)

\* C4 amended: when some table's total win is positive, reward_breakdown
\* returns the first table with the highest total, with the steps and the
\* remainder of that table's pass; when no table's total is positive it
\* returns no table (None) and total win 0.
C4_ReturnsFirstHighestPositiveTable ==
    call.fn = "reward" =>
        /\ ret.kind = "return"
        /\ \A i \in 1..Len(pk_data_shipped) :
              (FirstHighest(i) /\ PassWin(i) > 0) =>
                  LET pass == TablePass(call.copy, pk_data_shipped[i].rewards,
                                        call.budget)
                  IN /\ ret.best_type = pk_data_shipped[i].name
                     /\ ret.total = pass.temp_win
                     /\ ret.steps = pass.steps
                     /\ ret.leftover = pass.temp_points
        /\ (\A i \in 1..Len(pk_data_shipped) : PassWin(i) <= 0) =>
              (ret.best_type = "None" /\ ret.total = 0 /\ ret.steps = <<>>)

\* two tables tie for the highest positive total and the first is returned
C4_Witness ==
    /\ call.fn = "reward" /\ call.budget > 0
    /\ \E i, j \in 1..Len(pk_data_shipped) :
          /\ i < j /\ FirstHighest(i) /\ PassWin(j) = PassWin(i) /\ PassWin(i) > 0
          /\ ret.best_type = pk_data_shipped[i].name

\* C5: for every points budget <= 0 every copy of reward_breakdown returns
\* (None, 0, [], 0, pk_points) and does not raise.
C5_NonPositiveBudgetEmpty ==
    (call.fn = "reward" /\ call.budget <= 0) =>
        ret = RewardReturned(BestStart(call.budget))

\* C6 as stated: a negative budget given to greedy_bean_to_diamond raises
\* and no result tuple is returned.
C6_NegativeBudgetRaises ==
    (GreedyCalled /\ call.budget < 0) => ret.kind = "raise"

\* C6 amended: greedy_bean_to_diamond raises nothing for a negative budget;
\* every copy returns the tuple (0, beans, {}).
C6_NegativeBudgetReturnsZero ==
    (GreedyCalled /\ call.budget < 0) => ret = Returned(0, call.budget, <<>>)

C6_Witness ==
    /\ GreedyCalled /\ call.budget < 0 /\ call.packages /= <<>>
    /\ ret.kind = "return" /\ ret.leftover < 0

\* the largest total win of a multiset of rungs of one table within the
\* points budget, over the tables
OptimalWin(pk_points) ==
    SetMax({MaxYieldFrom(pk_data_shipped[i].rewards, 1, pk_points) :
               i \in 1..Len(pk_data_shipped)})

\* C7: for every positive points budget the total win reward_breakdown
\* returns is the largest total win obtainable by spending at most the
\* budget on a multiset of rungs of a single PK table.
C7_RewardIsOptimal ==
    (call.fn = "reward" /\ call.budget > 0) =>
        ret.total = OptimalWin(call.budget)

\* C8: for budget = 0 and any catalog greedy_bean_to_diamond returns total
\* yield 0, leftover 0 and an empty usage mapping.
C8_ZeroBudget ==
    (GreedyCalled /\ call.budget = 0 /\ ValidCatalog(call.packages)) =>
        ret = Returned(0, 0, <<>>)

C8_Witness ==
    /\ GreedyCalled /\ call.budget = 0
    /\ call.packages /= <<>> /\ ValidCatalog(call.packages)
    /\ ret.kind = "return"

\* C9: for an empty catalog and a non-negative budget greedy_bean_to_diamond
\* returns total yield 0, leftover = budget and an empty usage mapping, and
\* does not raise.
C9_EmptyCatalog ==
    (GreedyCalled /\ call.packages = <<>> /\ call.budget >= 0) =>
        ret = Returned(0, call.budget, <<>>)

C9_Witness ==
    /\ GreedyCalled /\ call.packages = <<>> /\ call.budget > 0
    /\ ret.kind = "return" /\ ret.leftover = call.budget

\* C10: with the shipped catalog and budget 10000, greedy_bean_to_diamond
\* uses the 3999 tier twice and the 999 tier twice, no other tier, and
\* returns total yield 2760 with leftover 4.
C10_Example1 ==
    (GreedyCalled /\ Range(call.packages) = Range(all_packages)
                  /\ call.budget = 10000) =>
        ret = Returned(2760, 4, << [key |-> "3999→1105", cnt |-> 2],
                                   [key |-> "999→275", cnt |-> 2] >>)

C10_Witness ==
    /\ GreedyCalled /\ call.copy = "main"
    /\ Range(call.packages) = Range(all_packages) /\ call.budget = 10000
    /\ ret.total = 2760 /\ ret.leftover = 4

\* sum over the steps (count, cost, win) of count * cost (field 2) or of
\* count * win (field 3)
RECURSIVE SumSteps(_, _, _)
SumSteps(steps, field, i) ==
    IF i > Len(steps) THEN 0
    ELSE steps[i][1] * steps[i][field] + SumSteps(steps, field, i + 1)

\* C11 as stated: for every points budget, diamonds_used is the points
\* spent by the chosen table floor-divided by 10, and diamonds_used * 10
\* never exceeds the points budget.
C11_DiamondsWithinBudget ==
    call.fn = "reward" =>
        /\ ret.diamonds_used = SumSteps(ret.steps, 2, 1) \div 10
        /\ ret.diamonds_used * 10 <= call.budget

\* C11 amended: for every points budget, diamonds_used is the points spent
\* floor-divided by 10; diamonds_used * 10 does not exceed the budget when
\* the budget is non-negative.
C11_DiamondsWithinNonNegativeBudget ==
    call.fn = "reward" =>
        /\ ret.kind = "return"
        /\ ret.diamonds_used = SumSteps(ret.steps, 2, 1) \div 10
        /\ call.budget >= 0 => ret.diamonds_used * 10 <= call.budget

C11_Witness ==
    /\ call.fn = "reward" /\ call.budget > 0
    /\ ret.best_type /= "None" /\ ret.leftover > 0
    /\ Len(ret.steps) >= 2
    /\ ret.diamonds_used * 10 < call.budget

\* tier j is visited before tier k: its cost is higher; of two tiers of equal
\* cost the one that comes first in the catalog (stable), or, with byYield,
\* the one of the higher yield
VisitedBefore(packages, byYield, j, k) ==
    \/ packages[j][1] > packages[k][1]
    \/ /\ packages[j][1] = packages[k][1]
       /\ IF byYield /\ packages[j][2] /= packages[k][2]
          THEN packages[j][2] > packages[k][2]
          ELSE j < k

\* the tiers in the order of the visit: the tier at position n is the one
\* that n - 1 tiers are visited before
VisitOrder(packages, byYield) ==
    [n \in 1..Len(packages) |->
        packages[CHOOSE k \in 1..Len(packages) :
            Cardinality({j \in 1..Len(packages) :
                            VisitedBefore(packages, byYield, j, k)}) = n - 1]]

\* the reference single pass: count = remaining // cost, the tier recorded
\* when count > 0
RECURSIVE ReferencePass(_, _, _, _, _)
ReferencePass(tiers, i, remaining, total, counts) ==
    IF i > Len(tiers) THEN Returned(total, remaining, counts)
    ELSE LET count == remaining \div tiers[i][1]
         IN ReferencePass(tiers, i + 1,
                remaining - count * tiers[i][1],
                total + count * tiers[i][2],
                IF count > 0
                THEN Append(counts, [key |-> PackageKey(tiers[i][1], tiers[i][2]),
                                     cnt |-> count])
                ELSE counts)

Reference(packages, byYield, budget) ==
    ReferencePass(VisitOrder(packages, byYield), 1, budget, 0, <<>>)

\* C13: for a non-negative budget the result of every copy of
\* greedy_bean_to_diamond is that of the reference pass that visits the
\* tiers in descending cost order, tiers of equal cost in catalog order.
C13_StableReferencePass ==
    (GreedyCalled /\ call.budget >= 0 /\ ValidCatalog(call.packages)) =>
        ret = Reference(call.packages, FALSE, call.budget)

\* What the copies do: the copy of main.py visits tiers of equal cost in
\* catalog order; the copies of Hosting_pay_dashboard.py and
\* agency_pay_dashboard.py sort on the whole tuple and visit them in
\* descending yield order; each result is that of the reference pass over
\* the copy's order.
ReferencePassPerCopy ==
    (GreedyCalled /\ call.budget >= 0 /\ ValidCatalog(call.packages)) =>
        ret = Reference(call.packages, call.copy /= "main", call.budget)

\* C14: the backward reconstruction of the Exact Allocator ends, and its
\* usage and leftover satisfy sum(count * cost) + leftover = budget and
\* sum(count * yield) = best[budget], the optimum of the table.
C14_ReconstructionAttainsBest ==
    (call.fn = "exact" /\ call.budget >= 0) =>
        /\ ret.kind = "return"
        /\ ret.leftover >= 0
        /\ SumCounts(ret.counts, call.packages, 1, 1) + ret.leftover = call.budget
        /\ SumCounts(ret.counts, call.packages, 2, 1) = ret.total
        /\ ret.total = MaxYieldFrom(call.packages, 1, call.budget)

C14_Witness ==
    /\ call.fn = "exact" /\ call.budget > 0
    /\ Len(ret.counts) >= 2
    /\ \E i \in 1..Len(ret.counts) : ret.counts[i].cnt >= 2
    /\ SumCounts(ret.counts, call.packages, 2, 1) = ret.total

\* the costs of the tiers of a catalog
Costs(packages) == {packages[i][1] : i \in 1..Len(packages)}

\* C16: for a non-negative budget and a non-empty catalog of positive-cost
\* tiers, the leftover of greedy_bean_to_diamond is >= 0 and smaller than
\* the smallest tier cost.
C16_LeftoverBelowCheapest ==
    (GreedyCalled /\ call.budget >= 0 /\ call.packages /= <<>>
                  /\ ValidCatalog(call.packages)) =>
        /\ ret.kind = "return"
        /\ ret.leftover >= 0
        /\ \A c \in Costs(call.packages) : ret.leftover < c

C16_Witness ==
    /\ GreedyCalled /\ call.budget > 0 /\ Len(call.packages) >= 2
    /\ ValidCatalog(call.packages)
    /\ ret.counts /= <<>>
    /\ ret.leftover > 0

\* the rungs of the table of that name
RewardsOf(name) ==
    UNION {Range(pk_data_shipped[i].rewards) :
              i \in {j \in 1..Len(pk_data_shipped) : pk_data_shipped[j].name = name}}

\* C17: for a points budget >= 0 the tuple of reward_breakdown is consistent:
\* sum(count * cost) + remainder = budget, total win = sum(count * win),
\* every count >= 1, the steps in strictly descending cost order and all
\* rungs of the chosen table.
C17_RewardTupleConsistent ==
    (call.fn = "reward" /\ call.budget >= 0) =>
        /\ ret.kind = "return"
        /\ SumSteps(ret.steps, 2, 1) + ret.leftover = call.budget
        /\ SumSteps(ret.steps, 3, 1) = ret.total
        /\ \A i \in 1..Len(ret.steps) :
              /\ ret.steps[i][1] >= 1
              /\ <<ret.steps[i][2], ret.steps[i][3]>> \in RewardsOf(ret.best_type)
        /\ \A i \in 1..(Len(ret.steps) - 1) : ret.steps[i][2] > ret.steps[i + 1][2]

C17_Witness ==
    /\ call.fn = "reward" /\ call.budget > 0
    /\ Len(ret.steps) >= 3
    /\ \E i \in 1..Len(ret.steps) : ret.steps[i][1] >= 2
    /\ ret.leftover > 0

\* the cost of the cheapest rung of all tables
CheapestRung ==
    CHOOSE c \in UNION {Costs(pk_data_shipped[i].rewards) : i \in 1..Len(pk_data_shipped)} :
        \A i \in 1..Len(pk_data_shipped) :
            \A d \in Costs(pk_data_shipped[i].rewards) : c <= d

\* C18: for a points budget >= 0 reward_breakdown returns no table exactly
\* when the budget is below the cheapest rung of every table (2000 points);
\* then total win is 0, steps are empty, diamonds used is 0 and the
\* remainder is the budget; otherwise a table is returned and total win > 0.
C18_NoTableBelowCheapestRung ==
    (call.fn = "reward" /\ call.budget >= 0) =>
        /\ CheapestRung = 2000
        /\ (ret.best_type = "None") <=> (call.budget < CheapestRung)
        /\ (ret.best_type = "None") =>
              ret = RewardReturned(BestStart(call.budget))
        /\ (ret.best_type /= "None") =>
              (ret.total > 0 /\ ret.best_type \in
                  {pk_data_shipped[i].name : i \in 1..Len(pk_data_shipped)})

C18_Witness ==
    /\ call.fn = "reward" /\ call.budget > 0 /\ call.budget < CheapestRung
    /\ ret.best_type = "None" /\ ret.leftover = call.budget

\* C15: for a non-negative budget and a catalog of positive-cost tiers the
\* copies of greedy_bean_to_diamond in main.py, Hosting_pay_dashboard.py and
\* agency_pay_dashboard.py return the same (total, leftover, counts).
C15_CopiesEquivalent ==
    (GreedyCalled /\ call.budget >= 0 /\ ValidCatalog(call.packages)) =>
        \A copy \in {"main", "Hosting", "agency"} :
            greedy_bean_to_diamond(copy, call.budget, call.packages) = ret

\* two tiers of the catalog have the same cost and different yields
EqualCostTiers(packages) ==
    \E i, j \in 1..Len(packages) :
        packages[i][1] = packages[j][1] /\ packages[i][2] /= packages[j][2]

\* What the copies do: they return the same result on every catalog but
\* those with two tiers of equal cost and different yield.
CopiesEquivalentOnDistinctCosts ==
    (GreedyCalled /\ call.budget >= 0 /\ ValidCatalog(call.packages)
                  /\ ~EqualCostTiers(call.packages)) =>
        \A copy \in {"main", "Hosting", "agency"} :
            greedy_bean_to_diamond(copy, call.budget, call.packages) = ret

\* C12: a call made twice in a row with the same inputs returns the same
\* result, and no call changes the module-level pk_data tables that a later
\* call reads.
C12_Idempotent ==
    /\ pk_data = pk_data_shipped
    /\ prev.kind /= "none" => ret = prev

C12_Witness ==
    /\ call.fn = "reward" /\ call.copy = "Hosting" /\ call.budget > 0
    /\ prev.kind = "return" /\ prev.total > 0
    /\ ret = prev

\* C19: in the tab3 flow, for a non-negative diamond input, diamonds_used *
\* 10 is the points spent and Diamonds Used + Unused Diamonds is the amount
\* entered; every rung cost of the shipped tables is a multiple of 10.
C19_DisplayLosesNothing ==
    (call.fn = "tab3" /\ ret.kind = "return") =>
        /\ \A i \in 1..Len(pk_data_shipped) :
              \A c \in Costs(pk_data_shipped[i].rewards) : c % 10 = 0
        /\ ret.diamonds_used * 10 = SumSteps(ret.steps, 2, 1)
        /\ ret.diamonds_used * 10 + ret.leftover = PkPointsOf(call.budget)
        /\ ret.diamonds_used + UnusedDiamonds(ret.leftover) = call.budget

C19_Witness ==
    /\ call.fn = "tab3" /\ call.budget > 0 /\ call.budget % 100 /= 0
    /\ ret.kind = "return" /\ ret.best_type /= "None"
    /\ ret.leftover > 0 /\ UnusedDiamonds(ret.leftover) > 0
    /\ ret.diamonds_used + UnusedDiamonds(ret.leftover) = call.budget

====
